---- MODULE Spec2Model ----
(***************************************************************************)
(* Model of karalabe/cloudflare-dyndns (src/main.go): the reconciliation   *)
(* loop of main(), resolveAddress, updateDNS, resolveRecordId, buildMail   *)
(* and sendMail.                                                           *)
(*                                                                         *)
(* Strings that the program inspects character by character (host names,   *)
(* the -domains flag, record display names) are sequences of tokens: a     *)
(* token is either a separator ("." or ",") or a non-empty run of other    *)
(* characters. Strings that the program only compares or copies (the       *)
(* resolved address, ids) are TLA+ strings. A Go error is a record         *)
(* [isNil, msg]; msg is the sequence of the pieces of its message.         *)
(***************************************************************************)
EXTENDS Integers, Sequences, FiniteSets, TLC

\* ------------------------------------------------------------------ bounds
MaxCycles == 3
MaxObjs == 2

\* ------------------------------------------------------------ Go error values
Nil == [isNil |-> TRUE, msg |-> <<>>]

Err(m) == [isNil |-> FALSE, msg |-> m]

\* ------------------------------------------------------------- configuration
ttlFlag == 120

DomainFlags ==
    { <<>>,
      <<"sub", ".", "example", ".", "com">>,
      <<"sub", ".", "example", ".", "com", ",", "www", ".", "example", ".", "com">>,
      <<"sub", ".", "example", ".", "co", ".", "uk">>,
      <<"example", ".", "com", ",", "sub", ".", "example", ".", "com">>,
      <<"sub", ".", "example", ".", "com", ",", "example", ".", "com">> }

\* ------------------------------------------------------------ pure functions
RECURSIVE Split(_, _)
Split(s, sep) ==
    IF \E k \in 1..Len(s) : s[k] = sep
    THEN LET k == CHOOSE k \in 1..Len(s) : s[k] = sep /\ \A j \in 1..(k-1) : s[j] # sep
         IN <<SubSeq(s, 1, k-1)>> \o Split(SubSeq(s, k+1, Len(s)), sep)
    ELSE <<s>>

Hosts(flag) == Split(flag, ",")

\* domainSplitter = "(.+)\.(.+\..+)": the match, when there is one, spans the
\* whole string; the first group is greedy, so the dot that ends it is the
\* last one that still leaves "x.y" behind it. Result: <<>> for no match (nil),
\* else <<whole, group 1, group 2>> (Go's parts[0], parts[1], parts[2]).
SplitDots(s) ==
    { k \in 2..Len(s) : s[k] = "." /\ \E j \in (k+2)..(Len(s)-1) : s[j] = "." }

FindStringSubmatch(s) ==
    IF SplitDots(s) = {} THEN <<>>
    ELSE LET k == CHOOSE k \in SplitDots(s) : \A m \in SplitDots(s) : m <= k
         IN <<s, SubSeq(s, 1, k-1), SubSeq(s, k+1, Len(s))>>

\* --------------------------------------------------- external replies (inputs)
\* What the two "what is my IP" services can answer: the GET fails, reading
\* the body fails, or a body arrives (any bytes, the empty body included).
Bodies == {"", "1.1.1.1", "2.2.2.2"}

GetReplies ==
    { [kind |-> k, body |-> ""] : k \in {"geterr", "readerr"} }
        \cup { [kind |-> "ok", body |-> b] : b \in Bodies }

\* The display names a zone listing may hold for a host: its record label,
\* the full host name, and a foreign name.
DisplayNames(host) ==
    LET parts == FindStringSubmatch(host)
    IN {host, <<"mail">>} \cup (IF parts = <<>> THEN {} ELSE {parts[2]})

RecIds == <<"id1", "id2", "id3", "id4">>

ObjLists(host) ==
    UNION { { [p \in 1..n |-> [Id |-> RecIds[p], Name |-> f[p]]] :
                f \in [1..n -> DisplayNames(host)] } : n \in 0..MaxObjs }

ListReplies(host) ==
    { [kind |-> k, result |-> "", msg |-> "", objs |-> <<>>] :
        k \in {"posterr", "readerr", "badjson"} }
        \cup { [kind |-> "ok", result |-> "error", msg |-> "denied", objs |-> <<>>] }
        \cup { [kind |-> "ok", result |-> "success", msg |-> "", objs |-> o] :
                o \in ObjLists(host) }

EditReplies ==
    { [kind |-> k, result |-> "", msg |-> ""] : k \in {"posterr", "readerr", "badjson"} }
        \cup { [kind |-> "ok", result |-> "error", msg |-> "denied"],
               [kind |-> "ok", result |-> "success", msg |-> ""] }

NoReply == [kind |-> "none", result |-> "", msg |-> ""]

SmtpOutcomes == {"ok", "hostnameerr", "dialerr", "dataerr", "writeerr"}

\* ------------------------------------------------------------ resolveAddress
\* ifaceOk: the -interface flag is unset, or httpClientWithIface succeeded.
\* r1, r2: the replies of the two services (r2 is not asked for when r1 fails).
resolveAddressUnconfirmed(ifaceOk, r1, r2) ==
    IF ~ifaceOk THEN [fatal |-> TRUE, address |-> "", err |-> Nil]
    ELSE IF r1.kind # "ok"
         THEN [fatal |-> FALSE, address |-> "", err |-> Err(<<r1.kind>>)]
    ELSE IF r2.kind # "ok"
         THEN [fatal |-> FALSE, address |-> "", err |-> Err(<<r2.kind>>)]
    ELSE [fatal |-> FALSE, address |-> r1.body, err |-> Nil]

resolveAddress(ifaceOk, r1, r2) ==
    IF ~ifaceOk THEN [fatal |-> TRUE, address |-> "", err |-> Nil]
    ELSE IF r1.kind # "ok"
         THEN [fatal |-> FALSE, address |-> "", err |-> Err(<<r1.kind>>)]
    ELSE IF r2.kind # "ok"
         THEN [fatal |-> FALSE, address |-> "", err |-> Err(<<r2.kind>>)]
    ELSE IF r1.body # r2.body
         THEN [fatal |-> FALSE, address |-> "",
               err |-> Err(<<"resolution conflict: ", r1.body, " != ", r2.body>>)]
    ELSE [fatal |-> FALSE, address |-> r1.body, err |-> Nil]

\* ----------------------------------------------------------- resolveRecordId
FirstMatch(objs, record) ==
    CHOOSE p \in 1..Len(objs) :
        objs[p].Name = record /\ \A q \in 1..(p-1) : objs[q].Name # record

resolveRecordIdFullName(zone, record, lr) ==
    IF lr.kind # "ok" THEN [id |-> "", err |-> Err(<<lr.kind>>)]
    ELSE IF lr.result = "error"
         THEN [id |-> "", err |-> Err(<<"request denied: ", lr.msg>>)]
    ELSE IF \E p \in 1..Len(lr.objs) : lr.objs[p].Name = record \o <<".">> \o zone
         THEN [id |-> lr.objs[FirstMatch(lr.objs, record \o <<".">> \o zone)].Id,
               err |-> Nil]
    ELSE [id |-> "", err |-> Err(<<"unknown record">>)]

resolveRecordId(zone, record, lr) ==
    IF lr.kind # "ok" THEN [id |-> "", err |-> Err(<<lr.kind>>)]
    ELSE IF lr.result = "error"
         THEN [id |-> "", err |-> Err(<<"request denied: ", lr.msg>>)]
    ELSE IF \E p \in 1..Len(lr.objs) : lr.objs[p].Name = record
         THEN [id |-> lr.objs[FirstMatch(lr.objs, record)].Id, err |-> Nil]
    ELSE [id |-> "", err |-> Err(<<"unknown record">>)]

\* ----------------------------------------------------------------- updateDNS
\* lines 137-138: zone, record := parts[2], parts[1]. With no match parts is
\* nil and indexing it panics.
Panics(domain) == FindStringSubmatch(domain) = <<>>

Zone(domain) == FindStringSubmatch(domain)[3]

Record(domain) == FindStringSubmatch(domain)[2]

ListCall(zone) ==
    [a |-> "rec_load_all", z |-> zone, id |-> "", type |-> "", name |-> <<>>,
     ttl |-> 0, content |-> ""]

EditCall(zone, id, record, ttl, addr) ==
    [a |-> "rec_edit", z |-> zone, id |-> id, type |-> "A", name |-> record,
     ttl |-> ttl, content |-> addr]

NoCall ==
    [a |-> "", z |-> <<>>, id |-> "", type |-> "", name |-> <<>>, ttl |-> 0,
     content |-> ""]

\* line 142: the edit is posted only when resolveRecordId returned no error.
EditPosted(rid) == rid.err.isNil

EditVerdictLenient(er) ==
    IF er.kind # "ok" THEN Err(<<er.kind>>) ELSE Nil

\* lines 157-178: the verdict on the edit reply.
EditVerdict(er) ==
    IF er.kind # "ok" THEN Err(<<er.kind>>)
    ELSE IF er.result = "error" THEN Err(<<"request denied: ", er.msg>>)
    ELSE Nil

\* lines 141-178: the error updateDNS returns, given resolveRecordId's result
\* and the edit reply (not looked at unless the edit is posted).
updateDNS(rid, er) ==
    IF ~EditPosted(rid) THEN Err(<<"record id resolution failed: ">> \o rid.err.msg)
    ELSE EditVerdict(er)

\* ------------------------------------------------------- buildMail, sendMail
buildMail(ip, res) ==
    [subject |-> IF ip # "" THEN <<"External IP changed to ", ip>>
                 ELSE <<"Failed to resolve external IP">>,
     body |-> [p \in 1..Len(res) |->
                 <<res[p].host, IF res[p].err.isNil THEN <<"OK">> ELSE res[p].err.msg>>]]

NoMail == [subject |-> <<>>, body |-> <<>>]

\* mail: the -mail flag is set. smtp: how the delivery goes. Returns the error
\* and the message written to the server (NoMail when none was).
sendMail(mail, ip, res, smtp) ==
    IF ~mail THEN [err |-> Nil, sent |-> NoMail]
    ELSE IF smtp = "ok" THEN [err |-> Nil, sent |-> buildMail(ip, res)]
    ELSE [err |-> Err(<<smtp>>), sent |-> NoMail]

\* --------------------------------------------------------------------- state
VARIABLES
    domainsFlag,  \* -domains
    mailFlag,     \* -mail is set
    ifaceFlag,    \* -interface is set
    pc,           \* where main() is: "resolve", "branch", "update", "listed",
                  \* "sleep", "crashed" (panic), "fatal" (log.Fatal)
    starting,     \* main's starting
    previous,     \* main's previous
    address,      \* main's address
    err,          \* main's err after resolveAddress
    results,      \* main's results, a sequence of [host, err]
    rest,         \* the hosts the range loop of line 67 has still to visit
    rid,          \* updateDNS's id, err after resolveRecordId
    cycle,        \* number of the loop iteration, from 1
    replies,      \* the replies resolveAddress has just got
    listing,      \* the listing reply resolveRecordId has just got
    request,      \* the latest request sent to the provider in this cycle
    prevAtStart,  \* previous at the start of this cycle
    attempts,     \* the hosts updateDNS was invoked for in this cycle, in order
    calls,        \* the provider calls of this cycle, in order: [host, a]
    report,       \* the sendMail invocation of this cycle: <<>> or <<[ip, results, err, sent]>>
    okBefore,     \* an earlier cycle's resolution succeeded
    editReply,    \* the reply to the edit updateDNS has just posted
    last,         \* the latest earlier cycle that ran the update loop:
                  \* [address, ok, failed], its resolved address and the sets
                  \* of hosts whose update succeeded and failed
    e2e           \* while the run follows E2ESequence and every update
                  \* succeeds: [on, edits, sinks], the cycles of the edit calls
                  \* and of the sendMail invocations so far

vars ==
    <<domainsFlag, mailFlag, ifaceFlag, pc, starting, previous, address, err,
      results, rest, rid, cycle, replies, listing, request, prevAtStart,
      attempts, calls, report, okBefore, editReply, last, e2e>>

config == <<domainsFlag, mailFlag, ifaceFlag>>

NoListing == [kind |-> "none", result |-> "", msg |-> "", objs |-> <<>>]

NoRid == [id |-> "", err |-> Nil]

\* The end-to-end scenario: the addresses resolved in cycles 1, 2, 3.
E2ESequence == <<"1.1.1.1", "1.1.1.1", "2.2.2.2">>

NoLast == [address |-> "", ok |-> {}, failed |-> {}]

E2EOff == [on |-> FALSE, edits |-> <<>>, sinks |-> <<>>]

\* The configurations explored: every domain list with and without -mail, and
\* -interface with one of them.
Configs ==
    (DomainFlags \X BOOLEAN \X {FALSE})
        \cup {<<<<"sub", ".", "example", ".", "com">>, FALSE, TRUE>>}

Init ==
    /\ \E c \in Configs :
         /\ domainsFlag = c[1]
         /\ mailFlag = c[2]
         /\ ifaceFlag = c[3]
    /\ pc = "resolve"
    /\ starting = TRUE
    /\ previous = ""
    /\ address = ""
    /\ err = Nil
    /\ results = <<>>
    /\ rest = <<>>
    /\ rid = NoRid
    /\ cycle = 1
    /\ replies = <<>>
    /\ listing = NoListing
    /\ request = NoCall
    /\ prevAtStart = ""
    /\ attempts = <<>>
    /\ calls = <<>>
    /\ report = <<>>
    /\ okBefore = FALSE
    /\ editReply = NoReply
    /\ last = NoLast
    /\ e2e = [on |-> TRUE, edits |-> <<>>, sinks |-> <<>>]

\* -------------------------------------------------- decisions taken by main()
\* line 53
ResolutionFailed(e) == ~e.isNil

AddressChangedAlways(addr, prev) == TRUE

AddressChangedNever(addr, prev) == FALSE

\* line 64
AddressChanged(addr, prev) == addr # prev

UpdateFailedNever(e) == FALSE

\* line 68
UpdateFailed(e) == ~e.isNil

PreviousKept(addr, prev) == prev

\* line 81, reached only after a successful update
PreviousAfterSuccess(addr, prev) == addr

ReportAlways(start) == TRUE

\* line 83
ReportAfterUpdate(start) == ~start

StartingCleared(start, resolved) == FALSE

\* line 87, and the `continue` of line 62 that skips it
StartingAfterCycle(start, resolved) == IF resolved THEN FALSE ELSE start

FailureResultsDropped(res, e) == res

\* lines 55-58
FailureResults(res, e) == Append(res, [host |-> <<"all">>, err |-> e])

AfterReportFatal(mailErr) == IF mailErr.isNil THEN "sleep" ELSE "fatal"

\* lines 59-61 and 84-89: sendMail's return value is discarded and main goes
\* on to time.Sleep.
AfterReport(mailErr) == "sleep"

InvocationNoOutcomes(ip, res, smtp) ==
    LET m == sendMail(mailFlag, ip, <<>>, smtp)
    IN <<[ip |-> ip, results |-> <<>>, err |-> m.err, sent |-> m.sent]>>

\* The sendMail invocation as the cycle's record of it.
Invocation(ip, res, smtp) ==
    LET m == sendMail(mailFlag, ip, res, smtp)
    IN <<[ip |-> ip, results |-> res, err |-> m.err, sent |-> m.sent]>>

Outcomes == IF mailFlag THEN SmtpOutcomes ELSE {"ok"}

\* ------------------------------------------------------------------- actions
\* line 52: address, err := resolveAddress(); the interface cannot be used
\* (log.Fatal, line 102) only when -interface is set.
Resolve ==
    /\ pc = "resolve"
    /\ \E ifaceOk \in (IF ifaceFlag THEN BOOLEAN ELSE {TRUE}), r1 \in GetReplies :
         \E r2 \in (IF ifaceOk /\ r1.kind = "ok" THEN GetReplies ELSE {r1}) :
           LET r == resolveAddress(ifaceOk, r1, r2)
           IN /\ pc' = IF r.fatal THEN "fatal" ELSE "branch"
              /\ address' = r.address
              /\ err' = r.err
              /\ replies' = IF ~ifaceOk THEN <<>>
                            ELSE IF r1.kind = "ok" THEN <<r1, r2>> ELSE <<r1>>
              /\ e2e' = IF /\ e2e.on /\ ~r.fatal /\ r.err.isNil
                           /\ cycle <= Len(E2ESequence)
                           /\ r.address = E2ESequence[cycle]
                        THEN e2e ELSE E2EOff
    /\ UNCHANGED <<config, starting, previous, results, rest, rid, cycle, listing,
                   request, prevAtStart, attempts, calls, report, okBefore,
                   editReply, last>>

\* lines 53-62: the resolution failed; report it and sleep.
ResolveFailed ==
    /\ pc = "branch"
    /\ ResolutionFailed(err)
    /\ results' = FailureResults(results, err)
    /\ \E smtp \in Outcomes : report' = Invocation(address, results', smtp)
    /\ starting' = StartingAfterCycle(starting, FALSE)
    /\ pc' = AfterReport(report'[1].err)
    /\ replies' = <<>>
    /\ UNCHANGED <<config, previous, address, err, rest, rid, cycle, listing,
                   request, prevAtStart, attempts, calls, okBefore, editReply,
                   last, e2e>>

\* lines 64, 87-89: the address is the one already applied.
Unchanged ==
    /\ pc = "branch"
    /\ ~ResolutionFailed(err)
    /\ ~AddressChanged(address, previous)
    /\ starting' = StartingAfterCycle(starting, TRUE)
    /\ pc' = "sleep"
    /\ replies' = <<>>
    /\ UNCHANGED <<config, previous, address, err, results, rest, rid, cycle,
                   listing, request, prevAtStart, attempts, calls, report,
                   okBefore, editReply, last, e2e>>

\* lines 64-67: the address changed; split the flag and enter the range loop.
BeginUpdate ==
    /\ pc = "branch"
    /\ ~ResolutionFailed(err)
    /\ AddressChanged(address, previous)
    /\ rest' = Hosts(domainsFlag)
    /\ pc' = "update"
    /\ replies' = <<>>
    /\ UNCHANGED <<config, starting, previous, address, err, results, rid, cycle,
                   listing, request, prevAtStart, attempts, calls, report,
                   okBefore, editReply, last, e2e>>

\* lines 68, 137-141, 185-226: updateDNS is invoked for the next host, splits
\* it and lists the records of its zone.
ListRecords ==
    /\ pc = "update"
    /\ rest # <<>>
    /\ ~Panics(Head(rest))
    /\ LET host == Head(rest)
       IN /\ \E lr \in ListReplies(host) :
               /\ listing' = lr
               /\ rid' = resolveRecordId(Zone(host), Record(host), lr)
          /\ attempts' = Append(attempts, host)
          /\ request' = ListCall(Zone(host))
          /\ calls' = Append(calls, [host |-> host, a |-> "rec_load_all"])
    /\ editReply' = NoReply
    /\ pc' = "listed"
    /\ UNCHANGED <<config, starting, previous, address, err, results, rest, cycle,
                   replies, prevAtStart, report, okBefore, last, e2e>>

\* lines 68, 137-138: the host does not match domainSplitter: the process
\* dies inside updateDNS.
UpdatePanic ==
    /\ pc = "update"
    /\ rest # <<>>
    /\ Panics(Head(rest))
    /\ attempts' = Append(attempts, Head(rest))
    /\ pc' = "crashed"
    /\ e2e' = E2EOff
    /\ UNCHANGED <<config, starting, previous, address, err, results, rest, rid,
                   cycle, replies, listing, request, prevAtStart, calls, report,
                   okBefore, editReply, last>>

\* lines 142-179 and 68-82: the rest of updateDNS (the edit, when the record
\* id was found) and main's bookkeeping of its result.
FinishUpdate ==
    /\ pc = "listed"
    /\ LET host == Head(rest)
       IN \E er \in (IF EditPosted(rid) THEN EditReplies ELSE {NoReply}) :
            LET e == updateDNS(rid, er)
            IN /\ editReply' = er
               /\ results' = Append(results, [host |-> host, err |-> e])
               /\ previous' = IF UpdateFailed(e) THEN previous
                              ELSE PreviousAfterSuccess(address, previous)
               /\ IF EditPosted(rid)
                  THEN /\ request' = EditCall(Zone(host), rid.id, Record(host),
                                              ttlFlag, address)
                       /\ calls' = Append(calls, [host |-> host, a |-> "rec_edit"])
                  ELSE UNCHANGED <<request, calls>>
               /\ e2e' = IF e2e.on /\ ~UpdateFailed(e)
                         THEN [e2e EXCEPT !.edits = Append(@, cycle)] ELSE E2EOff
    /\ rest' = Tail(rest)
    /\ listing' = NoListing
    /\ rid' = NoRid
    /\ pc' = "update"
    /\ UNCHANGED <<config, starting, address, err, cycle, replies, prevAtStart,
                   attempts, report, okBefore, last>>

\* lines 83-89: the range loop is over; report unless starting, then sleep.
EndUpdate ==
    /\ pc = "update"
    /\ rest = <<>>
    /\ IF ReportAfterUpdate(starting)
       THEN /\ \E smtp \in Outcomes : report' = Invocation(address, results, smtp)
            /\ pc' = AfterReport(report'[1].err)
            /\ e2e' = IF e2e.on THEN [e2e EXCEPT !.sinks = Append(@, cycle)] ELSE e2e
       ELSE /\ pc' = "sleep"
            /\ UNCHANGED <<report, e2e>>
    /\ starting' = StartingAfterCycle(starting, TRUE)
    /\ UNCHANGED <<config, previous, address, err, results, rest, rid, cycle,
                   replies, listing, request, prevAtStart, attempts, calls,
                   okBefore, editReply, last>>

\* lines 61/89 and 46-50: time.Sleep returns and the next iteration starts
\* with fresh results.
Tick ==
    /\ pc = "sleep"
    /\ cycle < MaxCycles
    /\ cycle' = cycle + 1
    /\ pc' = "resolve"
    /\ results' = <<>>
    /\ prevAtStart' = previous
    /\ okBefore' = (okBefore \/ err.isNil)
    /\ request' = NoCall
    /\ attempts' = <<>>
    /\ calls' = <<>>
    /\ report' = <<>>
    /\ editReply' = NoReply
    /\ last' = IF attempts = <<>> THEN last
               ELSE [address |-> address,
                     ok |-> {results[p].host : p \in {q \in 1..Len(results) :
                                                        results[q].err.isNil}},
                     failed |-> {results[p].host : p \in {q \in 1..Len(results) :
                                                            ~results[q].err.isNil}}]
    /\ UNCHANGED <<config, starting, previous, address, err, rest, rid, replies,
                   listing, e2e>>

Next ==
    \/ Resolve
    \/ ResolveFailed
    \/ Unchanged
    \/ BeginUpdate
    \/ ListRecords
    \/ UpdatePanic
    \/ FinishUpdate
    \/ EndUpdate
    \/ Tick

Spec == Init /\ [][Next]_vars

\* -------------------------------------------------------------- properties
\* This cycle's resolution has returned, and returned an address.
Resolved == pc \notin {"resolve", "fatal"} /\ err.isNil

\* This cycle's resolution has returned an error.
Failed == pc \notin {"resolve", "fatal"} /\ ~err.isNil

ConfiguredHosts == Hosts(domainsFlag)

\* The number of dot-separated labels of a host name.
Labels(host) == Len(Split(host, "."))

\* C1: in a cycle whose resolution succeeds with the address that previous
\* held at the start of the cycle, updateDNS is never invoked and no request
\* (listing or edit) goes to the provider.
C1_NoProviderCallWhenUnchanged ==
    (Resolved /\ address = prevAtStart) =>
        (calls = <<>> /\ attempts = <<>> /\ request = NoCall)

C1_Witness ==
    /\ pc = "sleep" /\ Resolved /\ cycle > 1
    /\ address = prevAtStart /\ address # ""

\* C2: once a cycle whose resolution succeeded with a new address is over,
\* updateDNS has been invoked exactly once for every configured host, in the
\* configured order, whatever happened to the earlier hosts.
C2_EveryHostAttemptedOnce ==
    (pc \in {"sleep", "crashed"} /\ Resolved /\ address # prevAtStart) =>
        attempts = ConfiguredHosts

\* The end-to-end scenario has run its three cycles with two hosts.
E2EDone ==
    /\ e2e.on /\ cycle = Len(E2ESequence) /\ pc = "sleep"
    /\ Len(ConfiguredHosts) = 2

\* C3, as claimed: after the scenario 1.1.1.1, 1.1.1.1, 2.2.2.2 with two hosts
\* whose updates all succeed, two edit calls have been made and sendMail has
\* been invoked once, in cycle 3.
C3_TwoUpdateCalls ==
    E2EDone => (Len(e2e.edits) = 2 /\ e2e.sinks = <<3>>)

\* C3, amended: two cycles made edit calls, cycles 1 and 3, one per host, so
\* four edit calls; sendMail has been invoked once, in cycle 3.
C3_EndToEnd ==
    E2EDone => (e2e.edits = <<1, 1, 3, 3>> /\ e2e.sinks = <<3>>)

C3_Witness == E2EDone

\* The first cycle of the process whose resolution succeeds.
FirstSuccess == Resolved /\ ~okBefore

SomeUpdateSucceeded == \E p \in 1..Len(results) : results[p].err.isNil

\* C4, as claimed: the first cycle whose resolution succeeds ends with
\* previous equal to the resolved address and without a sendMail invocation;
\* a first cycle whose resolution fails ends with a sendMail invocation.
C4_FirstResolutionAdopted ==
    /\ (FirstSuccess /\ pc = "sleep") => (previous = address /\ report = <<>>)
    /\ (cycle = 1 /\ Failed /\ pc = "sleep") => report # <<>>

\* C4, amended: in the first cycle whose resolution succeeds, previous is the
\* resolved address as soon as an update of the cycle has succeeded and is
\* still empty until then, and sendMail is not invoked; a first cycle whose
\* resolution fails ends with a sendMail invocation.
C4_FirstResolution ==
    /\ FirstSuccess =>
         /\ prevAtStart = ""
         /\ previous = (IF SomeUpdateSucceeded THEN address ELSE "")
         /\ report = <<>>
    /\ (cycle = 1 /\ Failed /\ pc = "sleep") => report # <<>>

C4_Witness ==
    /\ FirstSuccess /\ pc = "sleep" /\ cycle = 2
    /\ address # "" /\ previous = address /\ report = <<>>

\* C5: a cycle that ends with a failure among its outcomes has invoked
\* sendMail, in the first cycle too; and a cycle that invoked updateDNS and
\* ends without a sendMail invocation is the first cycle of the process.
C5_FailuresReported ==
    pc = "sleep" =>
        /\ (\E p \in 1..Len(results) : ~results[p].err.isNil) => report # <<>>
        /\ (attempts # <<>> /\ report = <<>>) => cycle = 1

\* C6: a cycle whose resolution failed hands sendMail the empty address and
\* the single outcome ("all", the error), makes no provider call, leaves
\* previous alone and goes to sleep, from which the next cycle starts.
C6_ResolutionFailure ==
    /\ Failed => (calls = <<>> /\ attempts = <<>> /\ previous = prevAtStart
                    /\ pc \in {"branch", "sleep"})
    /\ (Failed /\ pc = "sleep") =>
         /\ Len(report) = 1
         /\ report[1].ip = ""
         /\ report[1].results = <<[host |-> <<"all">>, err |-> err]>>
         /\ (mailFlag /\ report[1].err.isNil) =>
              /\ report[1].sent.subject = <<"Failed to resolve external IP">>
              /\ report[1].sent.body = <<<< <<"all">>, err.msg >>>>
         /\ cycle < MaxCycles => ENABLED Tick

C6_Witness ==
    /\ Failed /\ pc = "sleep" /\ cycle > 1 /\ previous # ""
    /\ err.msg[1] = "resolution conflict: "
    /\ mailFlag /\ report[1].err.isNil

\* C7: resolveAddress returns the common body and no error when both services
\* answer the same body; an error naming both bodies, and no address, when
\* they answer different bodies; an error and no address when a lookup fails.
C7_ResolveAddress ==
    pc = "branch" =>
        /\ replies # <<>>
        /\ (\E p \in 1..Len(replies) : replies[p].kind # "ok") =>
              (address = "" /\ ~err.isNil)
        /\ (\A p \in 1..Len(replies) : replies[p].kind = "ok") =>
              /\ Len(replies) = 2
              /\ replies[1].body = replies[2].body =>
                    (address = replies[1].body /\ err.isNil)
              /\ replies[1].body # replies[2].body =>
                    /\ address = ""
                    /\ err = Err(<<"resolution conflict: ", replies[1].body,
                                   " != ", replies[2].body>>)

C7_Witness ==
    /\ pc = "branch" /\ Len(replies) = 2
    /\ replies[1].kind = "ok" /\ replies[2].kind = "ok"
    /\ replies[1].body # replies[2].body
    /\ replies[1].body # "" /\ replies[2].body # ""

SubExampleCoUk == <<"sub", ".", "example", ".", "co", ".", "uk">>

\* C8: for the host sub.example.co.uk the requests to the provider name the
\* zone example.co.uk and the record sub.
C8_SplitExample ==
    (request # NoCall /\ ConfiguredHosts = <<SubExampleCoUk>>) =>
        /\ request.z = <<"example", ".", "co", ".", "uk">>
        /\ request.a = "rec_edit" => request.name = <<"sub">>

\* C9: a host of fewer than 3 labels never stops the process: once updateDNS
\* has been invoked for it the loop is still running, no provider call was
\* made for it, and when the cycle is over it has a failure among the
\* outcomes and every configured host has an outcome.
C9_InvalidDomainRecorded ==
    \A p \in 1..Len(attempts) :
        Labels(attempts[p]) < 3 =>
            /\ pc # "crashed"
            /\ \A q \in 1..Len(calls) : calls[q].host # attempts[p]
            /\ pc = "sleep" =>
                  /\ Len(results) = Len(ConfiguredHosts)
                  /\ results[p].host = attempts[p] /\ ~results[p].err.isNil

\* The number of records of the listing whose display name is the one
\* resolveRecordId looks for.
Matches(host) ==
    Cardinality({p \in 1..Len(listing.objs) : listing.objs[p].Name = Record(host)})

\* C10: after a listing that holds no record, or two or more records, with
\* the matching display name, resolveRecordId has returned "unknown record",
\* so that no edit is posted for the host and the loop goes on to the next
\* host.
C10_ZeroOrManyIsUnknown ==
    (pc = "listed" /\ listing.kind = "ok" /\ listing.result = "success"
        /\ Matches(Head(rest)) # 1) =>
        /\ rid.err = Err(<<"unknown record">>)
        /\ ~EditPosted(rid)
        /\ ENABLED FinishUpdate

\* The parts of C11 that hold: previous starts empty; within a cycle it
\* differs from its value at the start of the cycle exactly when an update of
\* the cycle has succeeded, and is then the cycle's resolved address; so a
\* resolution failure, an unchanged address and a cycle whose updates all
\* failed leave it alone.
PreviousBookkeeping ==
    /\ (cycle = 1 /\ pc = "resolve") => previous = ""
    /\ pc = "resolve" => previous = prevAtStart
    /\ pc # "resolve" =>
         /\ SomeUpdateSucceeded => (Resolved /\ previous = address)
         /\ ~SomeUpdateSucceeded => previous = prevAtStart
         /\ (Failed \/ address = prevAtStart) => previous = prevAtStart

\* C11, as claimed: the bookkeeping above, and previous is never empty again
\* once it was set.
C11_NeverResetToEmpty ==
    /\ PreviousBookkeeping
    /\ prevAtStart # "" => previous # ""

\* C11, amended: the bookkeeping above, and previous becomes empty again only
\* by the same assignment: in a cycle that resolved the empty address (two
\* empty bodies) and in which an update succeeded.
C11_PreviousBookkeeping ==
    /\ PreviousBookkeeping
    /\ (prevAtStart # "" /\ previous = "") =>
          (Resolved /\ address = "" /\ SomeUpdateSucceeded)

C11_Witness ==
    /\ pc = "sleep" /\ cycle > 1 /\ prevAtStart # ""
    /\ previous # prevAtStart /\ previous # ""
    /\ SomeUpdateSucceeded /\ \E p \in 1..Len(results) : ~results[p].err.isNil

\* The hosts the latest earlier updating cycle failed to update are due again
\* in this cycle: it has resolved the address of that cycle.
RetryDue == Resolved /\ last.failed # {} /\ address = last.address

\* C12: within a cycle no call is made twice (one listing and one edit at
\* most per host, one updateDNS per host); after a cycle whose resolution
\* failed the loop sleeps and resolves again; and once a cycle that resolves
\* the address of the latest updating cycle is over, every host whose update
\* failed in that cycle has had an update attempt.
C12_FailedWorkRetried ==
    /\ \A p, q \in 1..Len(calls) : calls[p] = calls[q] => p = q
    /\ \A p, q \in 1..Len(attempts) : attempts[p] = attempts[q] => p = q
    /\ (Failed /\ pc = "sleep" /\ cycle < MaxCycles) => ENABLED Tick
    /\ (RetryDue /\ pc \in {"sleep", "crashed"}) =>
          \A h \in last.failed : \E p \in 1..Len(attempts) : attempts[p] = h

\* C13: whatever sendMail returned, main is asleep after it with starting and
\* previous as the cycle's outcomes alone determine them, and the next cycle
\* can start.
C13_DeliveryFailureIgnored ==
    report # <<>> =>
        /\ pc = "sleep"
        /\ starting = (Failed /\ ~okBefore)
        /\ previous = (IF SomeUpdateSucceeded THEN address ELSE prevAtStart)
        /\ cycle < MaxCycles => ENABLED Tick

C13_Witness ==
    /\ report # <<>> /\ ~report[1].err.isNil /\ pc = "sleep"
    /\ Resolved /\ previous # prevAtStart /\ cycle < MaxCycles

\* The latest earlier updating cycle was a partial failure (an update
\* succeeded, another failed) and this cycle has resolved its address again.
AfterPartialFailure == RetryDue /\ last.ok # {}

\* C14: after a partial-failure cycle previous is the address of that cycle,
\* and a cycle that resolves this address again invokes updateDNS for no host
\* and makes no provider call.
C14_PartialFailureNotRetried ==
    /\ (last.ok # {} /\ pc = "resolve") => previous = last.address
    /\ AfterPartialFailure => (attempts = <<>> /\ calls = <<>> /\ pc \in {"branch", "sleep"})

C14_Witness == AfterPartialFailure /\ pc = "sleep" /\ address # ""

\* The configured hosts up to the first one updateDNS panics on, that one
\* included: the hosts an update loop gets to.
RECURSIVE UpToPanic(_)
UpToPanic(hosts) ==
    IF hosts = <<>> THEN <<>>
    ELSE IF Panics(Head(hosts)) THEN <<Head(hosts)>>
    ELSE <<Head(hosts)>> \o UpToPanic(Tail(hosts))

\* C15, as claimed: when the first cycle whose resolution succeeds is over,
\* whatever address it resolved, updateDNS has been invoked for every
\* configured host.
C15_FirstSuccessUpdatesAll ==
    (FirstSuccess /\ pc \in {"sleep", "crashed"}) => attempts = ConfiguredHosts

\* C15, amended: the first cycle whose resolution succeeds enters the update
\* loop exactly when the resolved address is not empty (two empty bodies
\* resolve the empty address, which is what previous holds); the loop then
\* invokes updateDNS for the configured hosts in order, all of them unless
\* updateDNS panics on one.
C15_FirstSuccessUpdates ==
    /\ (FirstSuccess /\ pc = "branch") => (ENABLED BeginUpdate <=> address # "")
    /\ (FirstSuccess /\ pc \in {"sleep", "crashed"}) =>
          attempts = (IF address = "" THEN <<>> ELSE UpToPanic(ConfiguredHosts))

C15_Witness ==
    /\ FirstSuccess /\ pc = "sleep" /\ cycle = 2
    /\ address # "" /\ Len(attempts) = 2

\* C16: a report handed over in a cycle that resolved an address is handed
\* over when the range loop is over, with updateDNS invoked for every
\* configured host; it carries the resolved address and main's results, one
\* outcome per configured host in the configured order, a successful one only
\* for a host whose edit was posted; the mail delivered lists them the same
\* way; and main is asleep from then on until the next cycle starts, which
\* starts with no report.
C16_ReportComplete ==
    /\ pc \in {"resolve", "branch", "update", "listed"} => report = <<>>
    /\ (report # <<>> /\ Resolved) =>
         /\ pc = "sleep" /\ rest = <<>>
         /\ attempts = ConfiguredHosts
         /\ report[1].ip = address
         /\ report[1].results = results
         /\ Len(results) = Len(ConfiguredHosts)
         /\ \A p \in 1..Len(results) :
              /\ results[p].host = ConfiguredHosts[p]
              /\ results[p].err.isNil =>
                   \E q \in 1..Len(calls) :
                       calls[q] = [host |-> ConfiguredHosts[p], a |-> "rec_edit"]
         /\ (mailFlag /\ report[1].err.isNil) =>
              /\ address # "" =>
                   report[1].sent.subject = <<"External IP changed to ", address>>
              /\ Len(report[1].sent.body) = Len(ConfiguredHosts)
              /\ \A p \in 1..Len(results) :
                   report[1].sent.body[p] =
                       <<ConfiguredHosts[p],
                         IF results[p].err.isNil THEN <<"OK">> ELSE results[p].err.msg>>

C16_Witness ==
    /\ report # <<>> /\ Resolved /\ Len(results) = 2
    /\ results[1].err.isNil /\ ~results[2].err.isNil
    /\ mailFlag /\ report[1].err.isNil

\* C17, as claimed: the record whose id resolveRecordId returns has the full
\* host name as its display name.
C17_FullNameSelected ==
    (pc = "listed" /\ rid.err.isNil) =>
        \E p \in 1..Len(listing.objs) :
            listing.objs[p].Id = rid.id /\ listing.objs[p].Name = Head(rest)

\* C17, amended: the record whose id resolveRecordId returns is the first of
\* the listing whose display name is the record label of the host (what
\* domainSplitter puts before the zone); a listing without such a record
\* gives "unknown record", whether or not it holds the full host name.
C17_RecordLabelSelected ==
    pc = "listed" =>
        /\ rid.err.isNil =>
             \E p \in 1..Len(listing.objs) :
                 /\ listing.objs[p].Id = rid.id
                 /\ listing.objs[p].Name = Record(Head(rest))
                 /\ \A q \in 1..(p-1) : listing.objs[q].Name # Record(Head(rest))
        /\ (listing.kind = "ok" /\ listing.result = "success"
               /\ Matches(Head(rest)) = 0) => rid.err = Err(<<"unknown record">>)

C17_Witness ==
    /\ pc = "listed" /\ rid.err.isNil /\ rid.id = "id2"
    /\ listing.objs[1].Name = Head(rest)

\* The listing succeeded and holds a record with the display name looked for.
RecordFound(host) ==
    listing.kind = "ok" /\ listing.result # "error" /\ Matches(host) >= 1

LastResult(res) == res[Len(res)]

\* What the rest of one updateDNS invocation does after its listing call.
C18_Step ==
    pc = "listed" =>
        LET host == Head(rest)
        IN /\ calls[Len(calls)] = [host |-> host, a |-> "rec_load_all"]
           /\ request.a = "rec_load_all"
           /\ pc' = "update"
           /\ attempts' = attempts
           /\ results' = Append(results, LastResult(results'))
           /\ LastResult(results').host = host
           /\ IF RecordFound(host)
              THEN /\ calls' = Append(calls, [host |-> host, a |-> "rec_edit"])
                   /\ request'.a = "rec_edit"
                   /\ request'.id = rid.id
                   /\ request'.type = "A"
                   /\ request'.content = address
                   /\ request'.ttl = ttlFlag
                   /\ editReply'.kind = "ok" =>
                        (~LastResult(results').err.isNil <=> editReply'.result = "error")
                   /\ editReply'.kind # "ok" => ~LastResult(results').err.isNil
              ELSE /\ calls' = calls
                   /\ request' = request
                   /\ ~LastResult(results').err.isNil

\* C18: one updateDNS invocation makes one listing call and then at most one
\* edit call, none of them twice; the edit is posted exactly when the listing
\* succeeded and held the record, with the id found, type "A", the resolved
\* address and the TTL flag; the invocation returns an error when the parsed
\* edit reply has result "error" and none for any other parsed reply (a reply
\* that cannot be had or parsed is an error as well).
C18_UpdateDNS ==
    /\ [](\A p, q \in 1..Len(calls) :
             /\ calls[p] = calls[q] => p = q
             /\ (calls[p].host = calls[q].host /\ calls[p].a = "rec_load_all"
                    /\ calls[q].a = "rec_edit") => p < q)
    /\ [][C18_Step]_vars

C18_Witness ==
    /\ pc = "update" /\ editReply.kind = "ok" /\ editReply.result = "error"
    /\ request.a = "rec_edit" /\ request.id = "id2"
    /\ ~LastResult(results).err.isNil

\* C19: starting is set exactly until the end of the first cycle whose
\* resolution succeeds, whether that cycle updates or not; the cycles before
\* it, whose resolution failed, each invoked sendMail; a cycle that ran the
\* update loop to its end without invoking sendMail is that first cycle, and
\* no cycle ran the update loop before it, nor before a cycle that died in
\* updateDNS.
C19_StartingFlag ==
    /\ starting = ~(okBefore \/ (pc = "sleep" /\ Resolved))
    /\ (Failed /\ pc = "sleep") => report # <<>>
    /\ (pc = "sleep" /\ attempts # <<>> /\ report = <<>>) =>
          (FirstSuccess /\ last = NoLast)
    /\ pc = "crashed" => last = NoLast

C19_Witness ==
    /\ pc = "sleep" /\ cycle = 3 /\ FirstSuccess
    /\ attempts # <<>> /\ report = <<>> /\ ~starting

\* C20: in a cycle after the first one whose resolution succeeded, sendMail
\* is invoked exactly when the resolution failed or the resolved address is
\* not the value of previous at the start of the cycle; so a cycle that
\* resolved such an address and whose updates all failed has invoked
\* updateDNS for every configured host, has invoked sendMail and leaves
\* previous as it was.
C20_ReportIffChanged ==
    (okBefore /\ pc \in {"sleep", "crashed"}) =>
        /\ report # <<>> <=> (Failed \/ address # prevAtStart)
        /\ (Resolved /\ address # prevAtStart /\ ~SomeUpdateSucceeded) =>
              /\ attempts = ConfiguredHosts
              /\ previous = prevAtStart

====
